---- MODULE Spec2Model ----
(***************************************************************************)
(* Telemetry ingestion pipeline of src/dashboard.py: the Serial Reader     *)
(* threads (read_serial_data), the ingestion queue (data_queue), the       *)
(* record parser (parse_serial_data), the history buffer (data_buffer),    *)
(* the Connect / Disconnect handlers and the refresh step of main().       *)
(*                                                                         *)
(* A line of text is a sequence of one-character strings.  A decimal       *)
(* number is a record [m, e] that stands for m / 10^e, kept normalised     *)
(* (no trailing zero in m while e > 0), so equal values are equal records. *)
(***************************************************************************)
EXTENDS Integers, Sequences, FiniteSets, TLC

\* ------------------------------------------------------------------ bounds
\* Inputs of one run of the scenario Spec: ports opened by Connect plus lines
\* taken off the wire.
MaxInputs == 4
\* Inputs of one run of the buffer specification: one port and enough lines
\* to fill the buffer and evict from it.
BufInputs == 103
\* Items the device lets pile up in the queue before it sends the next line,
\* in the buffer specification (queue.Queue() itself is unbounded).
MaxQueue == 2

\* ports opened plus lines read in a run of the wire specification
WireInputs == 3

\* ------------------------------------------------------- program constants
\* len(data_buffer) > 100 triggers pop(0)
Capacity == 100
\* len(parts) >= 6
MinFields == 6
\* float(parts[1]) / 10000000.0 : seven decimal places
LatLonScale == 7
\* float(parts[3]) / 1000.0 : three decimal places
AltScale == 3

None == [none |-> TRUE]

\* --------------------------------------------------------------- text
Digits == {"0", "1", "2", "3", "4", "5", "6", "7", "8", "9"}

DigitVal(c) ==
    CASE c = "0" -> 0 [] c = "1" -> 1 [] c = "2" -> 2 [] c = "3" -> 3
      [] c = "4" -> 4 [] c = "5" -> 5 [] c = "6" -> 6 [] c = "7" -> 7
      [] c = "8" -> 8 [] c = "9" -> 9

RECURSIVE LStrip(_)
LStrip(s) ==
    IF s # <<>> /\ Head(s) = " " THEN LStrip(Tail(s)) ELSE s

RECURSIVE RStrip(_)
RStrip(s) ==
    IF s # <<>> /\ s[Len(s)] = " " THEN RStrip(SubSeq(s, 1, Len(s) - 1)) ELSE s

\* str.strip()
Strip(s) == RStrip(LStrip(s))

\* ',' in line
Contains(s, c) == \E i \in 1..Len(s) : s[i] = c

\* str.startswith(prefix)
StartsWith(s, prefix) ==
    /\ Len(s) >= Len(prefix)
    /\ SubSeq(s, 1, Len(prefix)) = prefix

\* str.split(','): the fields between the commas, empty fields kept
RECURSIVE Split(_, _)
Split(s, acc) ==
    IF s = <<>> THEN <<acc>>
    ELSE IF Head(s) = "," THEN <<acc>> \o Split(Tail(s), <<>>)
    ELSE Split(Tail(s), Append(acc, Head(s)))

\* ------------------------------------------------------------ decimals
RECURSIVE Pow10(_)
Pow10(n) == IF n = 0 THEN 1 ELSE 10 * Pow10(n - 1)

RECURSIVE DecNorm(_)
DecNorm(d) ==
    IF d.e > 0 /\ d.m % 10 = 0 THEN DecNorm([m |-> d.m \div 10, e |-> d.e - 1])
    ELSE d

Dec(m, e) == DecNorm([m |-> m, e |-> e])

\* x / 10^k
DecShift(d, k) == Dec(d.m, d.e + k)

DecMax(a, b) == IF a >= b THEN a ELSE b

DecSub(a, b) ==
    LET e == DecMax(a.e, b.e)
    IN  Dec(a.m * Pow10(e - a.e) - b.m * Pow10(e - b.e), e)

DecAdd(a, b) ==
    LET e == DecMax(a.e, b.e)
    IN  Dec(a.m * Pow10(e - a.e) + b.m * Pow10(e - b.e), e)

DecLess(a, b) ==
    LET e == DecMax(a.e, b.e)
    IN  a.m * Pow10(e - a.e) < b.m * Pow10(e - b.e)

\* ------------------------------------------------- numeric conversion
RECURSIVE DigitsVal(_, _)
DigitsVal(s, acc) ==
    IF s = <<>> THEN acc ELSE DigitsVal(Tail(s), 10 * acc + DigitVal(Head(s)))

AllDigits(s) == \A i \in 1..Len(s) : s[i] \in Digits

\* the sign of a numeric literal and what follows it
Signed(s) ==
    IF s # <<>> /\ Head(s) = "-" THEN [neg |-> TRUE, body |-> Tail(s)]
    ELSE IF s # <<>> /\ Head(s) = "+" THEN [neg |-> FALSE, body |-> Tail(s)]
    ELSE [neg |-> FALSE, body |-> s]

\* int(text): surrounding blanks allowed, an optional sign, one or more
\* digits; anything else raises ValueError (ok = FALSE).  The wire alphabet
\* of the model holds no underscore, so that form of literal is left out.
ToInt(text) ==
    LET t == Signed(Strip(text))
    IN  IF t.body # <<>> /\ AllDigits(t.body)
        THEN [ok |-> TRUE,
              v |-> IF t.neg THEN 0 - DigitsVal(t.body, 0) ELSE DigitsVal(t.body, 0)]
        ELSE [ok |-> FALSE, v |-> 0]

\* the position of the first "." of s, 0 when there is none
RECURSIVE DotAt(_, _)
DotAt(s, i) ==
    IF i > Len(s) THEN 0 ELSE IF s[i] = "." THEN i ELSE DotAt(s, i + 1)

\* float(text): surrounding blanks allowed, an optional sign, digits with at
\* most one ".", at least one digit; anything else raises ValueError.  The
\* wire alphabet of the model holds none of e, E, inf, nan or underscore, so
\* those forms are left out.
ToFloat(text) ==
    LET t == Signed(Strip(text))
        k == DotAt(t.body, 1)
        ip == IF k = 0 THEN t.body ELSE SubSeq(t.body, 1, k - 1)
        fp == IF k = 0 THEN <<>> ELSE SubSeq(t.body, k + 1, Len(t.body))
        mag == DigitsVal(ip \o fp, 0)
    IN  IF AllDigits(ip) /\ AllDigits(fp) /\ Len(ip) + Len(fp) > 0
        THEN [ok |-> TRUE, v |-> Dec(IF t.neg THEN 0 - mag ELSE mag, Len(fp))]
        ELSE [ok |-> FALSE, v |-> Dec(0, 0)]

\* ------------------------------------------------------- record parser
\* parse_serial_data with the conversions made lenient: a field that is no
\* number counts as 0 instead of raising
parse_serial_data_lenient(line, now) ==
    LET parts == Split(line, <<>>)
    IN  IF Len(parts) >= MinFields
        THEN [data |-> [timestamp |-> ToInt(parts[1]).v,
                        latitude  |-> DecShift(ToFloat(parts[2]).v, LatLonScale),
                        longitude |-> DecShift(ToFloat(parts[3]).v, LatLonScale),
                        altitude  |-> DecShift(ToFloat(parts[4]).v, AltScale),
                        rssi      |-> ToFloat(parts[5]).v,
                        snr       |-> ToFloat(parts[6]).v,
                        datetime  |-> now],
              report |-> "none"]
        ELSE [data |-> None, report |-> "none"]

\* parse_serial_data with fields 2 and 3 taken for each other
parse_serial_data_swapped(line, now) ==
    LET parts == Split(line, <<>>)
    IN  IF Len(parts) >= MinFields
        THEN LET ts   == ToInt(parts[1])
                 lat  == ToFloat(parts[3])
                 lon  == ToFloat(parts[2])
                 alt  == ToFloat(parts[4])
                 rssi == ToFloat(parts[5])
                 snr  == ToFloat(parts[6])
             IN  IF ts.ok /\ lat.ok /\ lon.ok /\ alt.ok /\ rssi.ok /\ snr.ok
                 THEN [data |-> [timestamp |-> ts.v,
                                 latitude  |-> DecShift(lat.v, LatLonScale),
                                 longitude |-> DecShift(lon.v, LatLonScale),
                                 altitude  |-> DecShift(alt.v, AltScale),
                                 rssi      |-> rssi.v,
                                 snr       |-> snr.v,
                                 datetime  |-> now],
                       report |-> "none"]
                 ELSE [data |-> None, report |-> "Data parsing error"]
        ELSE [data |-> None, report |-> "none"]

\* parse_serial_data(line), with datetime.now() passed as `now`.  The result
\* pairs the returned value (a sample, or None) with what the function
\* reported through st.sidebar.error ("none" when it reported nothing).
parse_serial_data(line, now) ==
    LET parts == Split(line, <<>>)
    IN  IF Len(parts) >= MinFields
        THEN LET ts   == ToInt(parts[1])
                 lat  == ToFloat(parts[2])
                 lon  == ToFloat(parts[3])
                 alt  == ToFloat(parts[4])
                 rssi == ToFloat(parts[5])
                 snr  == ToFloat(parts[6])
             IN  IF ts.ok /\ lat.ok /\ lon.ok /\ alt.ok /\ rssi.ok /\ snr.ok
                 THEN [data |-> [timestamp |-> ts.v,
                                 latitude  |-> DecShift(lat.v, LatLonScale),
                                 longitude |-> DecShift(lon.v, LatLonScale),
                                 altitude  |-> DecShift(alt.v, AltScale),
                                 rssi      |-> rssi.v,
                                 snr       |-> snr.v,
                                 datetime  |-> now],
                       report |-> "none"]
                 ELSE [data |-> None, report |-> "Data parsing error"]
        ELSE [data |-> None, report |-> "none"]

\* ------------------------------------------------------ link budget
\* calculate_distance: with both points equal, dlat = dlon = 0, a = 0,
\* c = 2 * atan2(0, 1) = 0 and the result is R * 0 = 0.  sin, cos and atan2
\* have no exact counterpart here, so the operator is defined on coincident
\* points only and the model keeps the receiver where the transmitter is.
calculate_distance(lat1, lon1, lat2, lon2) ==
    CASE lat1 = lat2 /\ lon1 = lon2 -> Dec(0, 0)

\* math.log10 on the powers of ten, where it is exact
Log10(x) ==
    CASE x = Dec(1, 0) -> 0
      [] x = Dec(10, 0) -> 1
      [] x = Dec(100, 0) -> 2
      [] x = Dec(1000, 0) -> 3

calculate_free_space_path_loss(distance_km, frequency_mhz) ==
    IF ~ DecLess(Dec(0, 0), distance_km)
    THEN Dec(0, 0)
    ELSE DecAdd(Dec(20 * Log10(distance_km) + 20 * Log10(frequency_mhz), 0),
                Dec(3244, 2))

\* calculate_link_margin with the receiver gain subtracted instead of added
calculate_link_margin_sign(tx_power, tx_gain, rx_gain, fspl, rx_sensitivity, filter_loss, rssi) ==
    [link_margin |-> DecSub(rssi, rx_sensitivity),
     theoretical_rx_power |->
         DecSub(DecSub(DecSub(DecAdd(tx_power, tx_gain), rx_gain), fspl), filter_loss)]

calculate_link_margin(tx_power, tx_gain, rx_gain, fspl, rx_sensitivity, filter_loss, rssi) ==
    [link_margin |-> DecSub(rssi, rx_sensitivity),
     theoretical_rx_power |->
         DecSub(DecSub(DecAdd(DecAdd(tx_power, tx_gain), rx_gain), fspl), filter_loss)]

\* the classification with the upper test made inclusive
delta_inclusive(link_margin) ==
    IF ~ DecLess(link_margin, Dec(10, 0)) THEN "Good"
    ELSE IF DecLess(link_margin, Dec(0, 0)) THEN "Poor"
    ELSE "Fair"

\* line 270, the delta of the "Link Margin" metric:
\* 'Good' if link_margin > 10 else 'Poor' if link_margin < 0 else 'Fair'
delta(link_margin) ==
    IF DecLess(Dec(10, 0), link_margin) THEN "Good"
    ELSE IF DecLess(link_margin, Dec(0, 0)) THEN "Poor"
    ELSE "Fair"

\* lines 257-274: the link budget shown for a distance, the sidebar's link
\* parameters and the rssi of the latest sample; "Power Difference" is
\* latest_data['rssi'] - theoretical_rx_power (line 274)
link_budget(a) ==
    LET fspl == calculate_free_space_path_loss(a.distance, a.frequency)
        lm == calculate_link_margin(a.tx_power, a.tx_gain, a.rx_gain, fspl,
                  a.rx_sensitivity, a.filter_loss, a.rssi)
    IN  [fspl |-> fspl,
         link_margin |-> lm.link_margin,
         theoretical_rx_power |-> lm.theoretical_rx_power,
         delta |-> delta(lm.link_margin),
         power_difference |-> DecSub(a.rssi, lm.theoretical_rx_power)]

\* arguments of the link budget: distances on both sides of 0, frequencies
\* (915 is the default of line 213), and rssi values that put the margin on,
\* next to and away from the limits 0 and 10 of the classification
CalcInputs ==
    [distance : {Dec(0 - 1, 0), Dec(0, 0), Dec(1, 0), Dec(10, 0), Dec(100, 0)},
     frequency : {Dec(915, 0), Dec(100, 0), Dec(1000, 0)},
     tx_power : {Dec(20, 0), Dec(145, 1)},
     tx_gain : {Dec(2, 0)},
     rx_gain : {Dec(2, 0)},
     rx_sensitivity : {Dec(0 - 110, 0), Dec(0 - 100, 0)},
     filter_loss : {Dec(2, 0), Dec(5, 1)},
     rssi : {Dec(0 - 95, 0), Dec(0 - 999, 1), Dec(0 - 100, 0), Dec(0 - 105, 0),
             Dec(0 - 110, 0), Dec(0 - 110001, 3)}]

\* math.log10 is followed on the powers of ten only: a positive distance
\* comes with a frequency that is one
Computable(a) ==
    DecLess(Dec(0, 0), a.distance) => a.frequency \in {Dec(100, 0), Dec(1000, 0)}

\* ------------------------------------------------------------ the wire
\* "1000,185204000,738567000,100000,-95.0,8.0"
LineScenario ==
    <<"1", "0", "0", "0", ",", "1", "8", "5", "2", "0", "4", "0", "0", "0",
      ",", "7", "3", "8", "5", "6", "7", "0", "0", "0", ",", "1", "0", "0",
      "0", "0", "0", ",", "-", "9", "5", ".", "0", ",", "8", ".", "0">>

\* " 2000,185204000,738567000,100000,-101.5,3,x"
LineExtra ==
    <<" ", "2", "0", "0", "0", ",", "1", "8", "5", "2", "0", "4", "0", "0",
      "0", ",", "7", "3", "8", "5", "6", "7", "0", "0", "0", ",", "1", "0",
      "0", "0", "0", "0", ",", "-", "1", "0", "1", ".", "5", ",", "3", ",",
      "x">>

\* "7,8,9"
LineShort ==
    <<"7", ",", "8", ",", "9">>

\* "1,2,x,4,5,6"
LineNonNumeric ==
    <<"1", ",", "2", ",", "x", ",", "4", ",", "5", ",", "6">>

\* "1.5,2,3,4,5,6"
LineFloatStamp ==
    <<"1", ".", "5", ",", "2", ",", "3", ",", "4", ",", "5", ",", "6">>

\* "boot"
LineNoComma ==
    <<"b", "o", "o", "t">>

\* "  "
LineBlank ==
    <<" ", " ">>

\* "ERROR"
ErrorPrefix ==
    <<"E", "R", "R", "O", "R">>

\* f"ERROR: {str(e)}", the text of e shortened to "io"
ErrorText ==
    <<"E", "R", "R", "O", "R", ":", " ", "i", "o">>

\* what the device sends in the scenario specification
ScenarioWire == {LineScenario, LineShort, LineNonNumeric, LineNoComma}

\* every kind of line the reader and the parser tell apart: records of six
\* and of seven fields, a short record, records with a field that is no
\* number, text without a comma and a blank line
FullWire ==
    {LineScenario, LineExtra, LineShort, LineNonNumeric, LineFloatStamp,
     LineNoComma, LineBlank}

\* what the device sends in the buffer specification
BufferWire == {LineScenario}

\* ------------------------------------------------------------- state
VARIABLES
    serial_connection,  \* st.session_state.serial_connection: 0 is None, else a handle
    ports,              \* per serial.Serial object ever made: "open", or how it was closed
    threads,            \* the read_serial_data threads ever started
    data_queue,         \* st.session_state.data_queue
    data_buffer,        \* st.session_state.data_buffer
    buffer_src,         \* history: for each buffer entry, the number of the line read for it
    clock,              \* datetime.now(), counted in samples accepted so far
    read_seq,           \* history: lines taken off the wire so far
    pc,                 \* where the script thread running main() stands
    report,             \* what the last step of main() wrote to st.error / st.sidebar.error
    display,            \* what the last refresh rendered in the "Current Readings" column
    run,                \* the run's wire and bounds, fixed by the initial state
    calc_in,            \* the arguments of one link-budget computation (lines 257-274)
    calc_out            \* what that computation returned, None before it ran

vars ==
    <<serial_connection, ports, threads, data_queue, data_buffer, buffer_src, clock,
      read_seq, pc, report, display, run,
                   calc_in, calc_out>>

NoLine == <<>>

\* a thread that has just been started by threading.Thread(...).start()
NewThread ==
    [pc |-> "check", line |-> NoLine, id |-> 0]

\* a thread whose loop has ended: its locals are gone
Ended(th, how) ==
    [th EXCEPT !.pc = how, !.line = NoLine, !.id = 0]

is_open(c) == ports[c] = "open"

\* serial.Serial.close(): closing a closed port changes nothing
close(c, by) ==
    IF is_open(c) THEN [ports EXCEPT ![c] = by] ELSE ports

\* ConnectOpen makes the k-th port and starts the k-th thread in one step:
\* thread t was started for port t
Born(t) == t

Live(t) == threads[t].pc # "done"

Common ==
    /\ serial_connection = 0
    /\ ports = <<>>
    /\ threads = <<>>
    /\ data_queue = <<>>
    /\ data_buffer = <<>>
    /\ buffer_src = <<>>
    /\ clock = 0
    /\ read_seq = 0
    /\ pc = "start"
    /\ report = "none"
    /\ display = [kind |-> "not rendered"]

\* no link-budget computation is followed outside the calculator specification
NoCalc ==
    /\ calc_in = None
    /\ calc_out = None

Init ==
    /\ Common
    /\ NoCalc
    /\ run = [texts |-> ScenarioWire, inputs |-> MaxInputs, ports |-> MaxInputs,
              queue |-> MaxInputs]

InitBuffer ==
    /\ Common
    /\ NoCalc
    /\ run = [texts |-> BufferWire, inputs |-> BufInputs, ports |-> 1, queue |-> MaxQueue]

InitWire ==
    /\ Common
    /\ NoCalc
    /\ run = [texts |-> FullWire, inputs |-> WireInputs, ports |-> WireInputs,
              queue |-> WireInputs]

\* a script run that is about to compute the link budget for some arguments
InitCalc ==
    /\ Common
    /\ run = [texts |-> {}, inputs |-> 0, ports |-> 0, queue |-> 0]
    /\ calc_in \in {a \in CalcInputs : Computable(a)}
    /\ calc_out = None

\* ------------------------------------------- Serial Reader (one thread)
\* line 108: the loop condition, read from the session state at every turn.
\* (The attribute is read twice; None at the second read is an AttributeError
\* outside the try block, which ends the thread like the loop's exit does,
\* with nothing queued.)
ReaderCheck(t) ==
    /\ threads[t].pc = "check"
    /\ threads' = [threads EXCEPT ![t] =
           IF serial_connection # 0 /\ is_open(serial_connection)
           THEN [@ EXCEPT !.pc = "poll"]
           ELSE Ended(@, "done")]
    /\ UNCHANGED <<serial_connection, ports, data_queue, data_buffer, buffer_src, clock,
                   read_seq, pc, report, display, run,
                   calc_in, calc_out>>

\* the handler of lines 114-116 without its break: the loop goes on
Raise_no_break(t) ==
    /\ threads' = [threads EXCEPT ![t].pc = "check"]
    /\ data_queue' = Append(data_queue, [text |-> ErrorText, id |-> 0])

\* lines 114-116: the handler queues the marker and breaks
Raise(t) ==
    /\ threads' = [threads EXCEPT ![t] = Ended(@, "done")]
    /\ data_queue' = Append(data_queue, [text |-> ErrorText, id |-> 0])

\* lines 110-111 raise: in_waiting or readline() on None or on a closed port,
\* or a failing read of an open one
ReaderFails(t) ==
    /\ threads[t].pc = "poll"
    /\ Raise(t)
    /\ UNCHANGED <<serial_connection, ports, data_buffer, buffer_src, clock,
                   read_seq, pc, report, display, run,
                   calc_in, calc_out>>

\* line 110 on an open port with in_waiting = 0, then the sleep of line 117
ReaderIdle(t) ==
    /\ threads[t].pc = "poll"
    /\ serial_connection # 0
    /\ is_open(serial_connection)
    /\ threads' = [threads EXCEPT ![t].pc = "check"]
    /\ UNCHANGED <<serial_connection, ports, data_queue, data_buffer, buffer_src, clock,
                   read_seq, pc, report, display, run,
                   calc_in, calc_out>>

\* lines 110-111 on an open port with a line waiting:
\* readline().decode('utf-8').strip() on the port the attribute names now
ReaderRead(t) ==
    /\ threads[t].pc = "poll"
    /\ serial_connection # 0
    /\ is_open(serial_connection)
    /\ Len(ports) + read_seq < run.inputs
    /\ Len(data_queue) < run.queue
    /\ \E text \in run.texts :
           threads' = [threads EXCEPT ![t] =
               [@ EXCEPT !.pc = "filter", !.line = Strip(text), !.id = read_seq + 1]]
    /\ read_seq' = read_seq + 1
    /\ UNCHANGED <<serial_connection, ports, data_queue, data_buffer, buffer_src, clock,
                   pc, report, display, run,
                   calc_in, calc_out>>

\* the filter of line 112 without the test for a comma
ReaderFilter_no_comma(t) ==
    /\ threads[t].pc = "filter"
    /\ data_queue' =
           IF threads[t].line # <<>>
           THEN Append(data_queue, [text |-> threads[t].line, id |-> threads[t].id])
           ELSE data_queue
    /\ threads' = [threads EXCEPT ![t] =
           [@ EXCEPT !.pc = "check", !.line = NoLine, !.id = 0]]
    /\ UNCHANGED <<serial_connection, ports, data_buffer, buffer_src, clock,
                   read_seq, pc, report, display, run,
                   calc_in, calc_out>>

\* lines 112-113 and the sleep of line 117
ReaderFilter(t) ==
    /\ threads[t].pc = "filter"
    /\ data_queue' =
           IF threads[t].line # <<>> /\ Contains(threads[t].line, ",")
           THEN Append(data_queue, [text |-> threads[t].line, id |-> threads[t].id])
           ELSE data_queue
    /\ threads' = [threads EXCEPT ![t] =
           [@ EXCEPT !.pc = "check", !.line = NoLine, !.id = 0]]
    /\ UNCHANGED <<serial_connection, ports, data_buffer, buffer_src, clock,
                   read_seq, pc, report, display, run,
                   calc_in, calc_out>>

\* ------------------------------------------- main(): connection handlers
\* the Connect handler without the close of lines 160-161
PressConnect_no_close ==
    /\ pc = "start"
    /\ Len(ports) < run.ports
    /\ Len(ports) + read_seq < run.inputs
    /\ pc' = "connect_open"
    /\ report' = "none"
    /\ UNCHANGED <<serial_connection, ports, threads, data_queue, data_buffer, buffer_src,
                   clock, read_seq, display, run,
                   calc_in, calc_out>>

\* lines 157-161: Connect pressed with a port selected; an existing handle is closed
PressConnect ==
    /\ pc = "start"
    /\ Len(ports) < run.ports
    /\ Len(ports) + read_seq < run.inputs
    /\ ports' = IF serial_connection # 0
                THEN close(serial_connection, "closed by connect") ELSE ports
    /\ pc' = "connect_open"
    /\ report' = "none"
    /\ UNCHANGED <<serial_connection, threads, data_queue, data_buffer, buffer_src, clock,
                   read_seq, display, run,
                   calc_in, calc_out>>

\* the open step of Connect with a fresh queue put in place of the pending one
ConnectOpen_fresh_queue ==
    /\ pc = "connect_open"
    /\ ports' = Append(ports, "open")
    /\ serial_connection' = Len(ports) + 1
    /\ threads' = Append(threads, NewThread)
    /\ data_queue' = <<>>
    /\ pc' = "drain"
    /\ report' = "none"
    /\ UNCHANGED <<data_buffer, buffer_src, clock, read_seq, display, run,
                   calc_in, calc_out>>

\* lines 163-169: serial.Serial(selected_port, baud_rate, timeout=1) returns an
\* open port, the handle is stored and a new reader thread is started
ConnectOpen ==
    /\ pc = "connect_open"
    /\ ports' = Append(ports, "open")
    /\ serial_connection' = Len(ports) + 1
    /\ threads' = Append(threads, NewThread)
    /\ pc' = "drain"
    /\ report' = "none"
    /\ UNCHANGED <<data_queue, data_buffer, buffer_src, clock, read_seq, display, run,
                   calc_in, calc_out>>

\* lines 163, 170-171: serial.Serial raises; the old (closed) handle stays in place
ConnectOpenFails ==
    /\ pc = "connect_open"
    /\ pc' = "drain"
    /\ report' = "Connection failed"
    /\ UNCHANGED <<serial_connection, ports, threads, data_queue, data_buffer, buffer_src,
                   clock, read_seq, display, run,
                   calc_in, calc_out>>

\* the Disconnect handler with a fresh queue put in place of the pending one
PressDisconnect_drops_queue ==
    /\ pc = "start"
    /\ ports' = IF serial_connection # 0
                THEN close(serial_connection, "closed by disconnect") ELSE ports
    /\ serial_connection' = 0
    /\ data_queue' = <<>>
    /\ pc' = "drain"
    /\ report' = "none"
    /\ UNCHANGED <<threads, data_buffer, buffer_src, clock, read_seq,
                   display, run,
                   calc_in, calc_out>>

\* lines 174-178: Disconnect pressed; with a handle in place it is closed and
\* the attribute set to None
PressDisconnect ==
    /\ pc = "start"
    /\ ports' = IF serial_connection # 0
                THEN close(serial_connection, "closed by disconnect") ELSE ports
    /\ serial_connection' = 0
    /\ pc' = "drain"
    /\ report' = "none"
    /\ UNCHANGED <<threads, data_queue, data_buffer, buffer_src, clock, read_seq,
                   display, run,
                   calc_in, calc_out>>

\* ------------------------------------------------- main(): queue drain
\* the append of line 225 without the eviction of lines 227-228
append_evict_never(buffer, x) == Append(buffer, x)

\* pop() in place of pop(0): the newest entry is dropped
append_evict_newest(buffer, x) ==
    LET b == Append(buffer, x)
    IN  IF Len(b) > Capacity THEN SubSeq(b, 1, Len(b) - 1) ELSE b

\* lines 225-228: append, then pop(0) once the length exceeds the capacity
append_evict(buffer, x) ==
    LET b == Append(buffer, x)
    IN  IF Len(b) > Capacity THEN Tail(b) ELSE b

\* lines 221-228 for the item at the head of the queue: the buffer, its
\* history, the clock and the report after the item
process(item) ==
    IF ~ StartsWith(item.text, ErrorPrefix)
    THEN LET r == parse_serial_data(item.text, clock + 1)
         IN  IF r.data # None
             THEN [buffer |-> append_evict(data_buffer, r.data),
                   src    |-> append_evict(buffer_src, item.id),
                   clock  |-> clock + 1,
                   report |-> r.report]
             ELSE [buffer |-> data_buffer, src |-> buffer_src, clock |-> clock,
                   report |-> r.report]
    ELSE [buffer |-> data_buffer, src |-> buffer_src, clock |-> clock, report |-> "none"]

\* lines 219-228: one turn of the while loop on a non-empty queue
ProcessItem ==
    /\ pc \in {"start", "drain"}
    /\ data_queue # <<>>
    /\ LET after == process(Head(data_queue))
       IN  /\ data_buffer' = after.buffer
           /\ buffer_src' = after.src
           /\ clock' = after.clock
           /\ report' = after.report
    /\ data_queue' = Tail(data_queue)
    /\ pc' = "drain"
    /\ UNCHANGED <<serial_connection, ports, threads, read_seq, display, run,
                   calc_in, calc_out>>

\* --------------------------------------------------- main(): refresh
\* the st.number_input defaults of lines 199-200 and 208-213
rx_lat == Dec(185204, 4)
rx_lon == Dec(738567, 4)
tx_power == Dec(20, 0)
tx_gain == Dec(2, 0)
rx_gain == Dec(2, 0)
rx_sensitivity == Dec(0 - 110, 0)
filter_loss == Dec(2, 0)
frequency == Dec(915, 0)

\* the rendering with data_buffer[0] in place of data_buffer[-1]
render_oldest(buffer) ==
    IF buffer # <<>>
    THEN LET latest_data == buffer[1]
             distance == calculate_distance(rx_lat, rx_lon,
                             latest_data.latitude, latest_data.longitude)
             fspl == calculate_free_space_path_loss(distance, frequency)
             lm == calculate_link_margin(tx_power, tx_gain, rx_gain, fspl,
                       rx_sensitivity, filter_loss, latest_data.rssi)
         IN  [kind |-> "metrics",
              latest |-> latest_data,
              distance |-> distance,
              fspl |-> fspl,
              link_margin |-> lm.link_margin,
              theoretical_rx_power |-> lm.theoretical_rx_power]
    ELSE [kind |-> "No data received yet"]

\* lines 236-277: what the "Current Readings" column shows for a buffer
render(buffer) ==
    IF buffer # <<>>
    THEN LET latest_data == buffer[Len(buffer)]
             distance == calculate_distance(rx_lat, rx_lon,
                             latest_data.latitude, latest_data.longitude)
             fspl == calculate_free_space_path_loss(distance, frequency)
             lm == calculate_link_margin(tx_power, tx_gain, rx_gain, fspl,
                       rx_sensitivity, filter_loss, latest_data.rssi)
         IN  [kind |-> "metrics",
              latest |-> latest_data,
              distance |-> distance,
              fspl |-> fspl,
              link_margin |-> lm.link_margin,
              theoretical_rx_power |-> lm.theoretical_rx_power]
    ELSE [kind |-> "No data received yet"]

\* the refresh with the loop left although the queue still holds items
Refresh_early ==
    /\ pc \in {"start", "drain"}
    /\ display' = render(data_buffer)
    /\ pc' = "start"
    /\ report' = "none"
    /\ UNCHANGED <<serial_connection, ports, threads, data_queue, data_buffer, buffer_src,
                   clock, read_seq, run,
                   calc_in, calc_out>>

\* line 219 with the queue empty, then lines 232-350: the loop ends, the page
\* is rendered from the buffer (which only this thread writes), the script
\* sleeps one second and reruns
Refresh ==
    /\ pc \in {"start", "drain"}
    /\ data_queue = <<>>
    /\ display' = render(data_buffer)
    /\ pc' = "start"
    /\ report' = "none"
    /\ UNCHANGED <<serial_connection, ports, threads, data_queue, data_buffer, buffer_src,
                   clock, read_seq, run,
                   calc_in, calc_out>>

\* ------------------------------------------------------ specifications
Threads == 1..Len(threads)

Next ==
    \/ \E t \in Threads : ReaderCheck(t)
    \/ \E t \in Threads : ReaderFails(t)
    \/ \E t \in Threads : ReaderIdle(t)
    \/ \E t \in Threads : ReaderRead(t)
    \/ \E t \in Threads : ReaderFilter(t)
    \/ PressConnect
    \/ ConnectOpen
    \/ ConnectOpenFails
    \/ PressDisconnect
    \/ ProcessItem
    \/ Refresh

\* the scenario specification: a short run over every kind of line
Spec == Init /\ [][Next]_vars

\* the buffer specification: one connection, enough lines to fill the buffer
SpecBuffer == InitBuffer /\ [][Next]_vars

\* the program fed with every kind of line
SpecWire == InitWire /\ [][Next]_vars

\* --------------------------------------------------- link budget alone
\* lines 257-274 for the arguments of this run
CalcCompute ==
    /\ calc_in # None
    /\ calc_out = None
    /\ calc_out' = link_budget(calc_in)
    /\ UNCHANGED <<serial_connection, ports, threads, data_queue, data_buffer, buffer_src,
                   clock, read_seq, pc, report, display, run, calc_in>>

\* lines 349-350: the script reruns, with other widget values or another
\* latest sample
CalcRerun ==
    /\ calc_out # None
    /\ calc_in' \in {a \in CalcInputs : Computable(a)}
    /\ calc_out' = None
    /\ UNCHANGED <<serial_connection, ports, threads, data_queue, data_buffer, buffer_src,
                   clock, read_seq, pc, report, display, run>>

NextCalc ==
    \/ CalcCompute
    \/ CalcRerun

\* the link budget computation, run after run
SpecCalc == InitCalc /\ [][NextCalc]_vars

\* one step of reader thread t, whichever line of read_serial_data it is at
ReaderStep(t) ==
    /\ t \in Threads
    /\ \/ ReaderCheck(t)
       \/ ReaderFails(t)
       \/ ReaderIdle(t)
       \/ ReaderRead(t)
       \/ ReaderFilter(t)

\* the program with every reader thread scheduled fairly: a daemon thread that
\* can take a step is not starved for ever (its sleep at line 117 ends)
SpecFair == Spec /\ \A t \in 1..MaxInputs : WF_vars(ReaderStep(t))

\* --------------------------------------------------------------- claims
\* a step in which thread t appends one item to the queue
Enqueues(t) ==
    /\ threads'[t] # threads[t]
    /\ Len(data_queue') = Len(data_queue) + 1

\* a step of the consumer that takes the head of the queue
Dequeues ==
    /\ data_queue # <<>>
    /\ data_queue' = Tail(data_queue)

IsMarker(item) == item.id = 0 /\ StartsWith(item.text, ErrorPrefix)

\* C1: a reader started by an earlier Connect never reads from the port
\* opened by a later Connect: whenever a thread takes a line off the wire, the
\* port it reads is the port it was started for.
C1_ReaderKeepsItsPort ==
    [][\A t \in Threads :
          (threads[t].pc = "poll" /\ threads'[t].pc = "filter")
              => serial_connection = Born(t)]_vars

\* C2: samples enter the history buffer in the order their lines were read
\* from the wire: the read numbers of the buffer's entries increase.
C2_BufferInReadOrder ==
    \A i, j \in 1..Len(buffer_src) : i < j => buffer_src[i] < buffer_src[j]

\* C3: the history buffer never holds more than 100 samples.
C3_BufferBounded == Len(data_buffer) <= Capacity

\* C3 witness: the buffer is full and samples have been evicted from it.
C3_Witness == Len(data_buffer) = Capacity /\ clock > Capacity

\* C4: after n accepted samples the buffer holds exactly the last min(n, 100)
\* of them, oldest first (samples are numbered by their acceptance time).
C4_BufferIsLastAccepted ==
    /\ Len(data_buffer) = IF clock <= Capacity THEN clock ELSE Capacity
    /\ \A i \in 1..Len(data_buffer) :
          data_buffer[i].datetime = clock - Len(data_buffer) + i

\* C4 witness: 101 samples accepted, the buffer holds samples 2..101.
C4_Witness ==
    /\ clock = Capacity + 1
    /\ Len(data_buffer) = Capacity
    /\ data_buffer[1].datetime = 2
    /\ data_buffer[Capacity].datetime = Capacity + 1

\* a line with fewer than 6 fields, or with one of its first 6 fields not a
\* number (the first an integer literal)
Malformed(text) ==
    LET parts == Split(text, <<>>)
    IN  \/ Len(parts) < MinFields
        \/ ~ ToInt(parts[1]).ok
        \/ \E k \in 2..MinFields : ~ ToFloat(parts[k]).ok

\* C5: a dequeued line that is short or has a non-numeric field among its
\* first 6 yields no sample: the step that takes it leaves the buffer as it
\* was and the consumer stays in its drain loop, ready for the next item.
C5_MalformedLineDropped ==
    [][(Dequeues /\ Malformed(Head(data_queue).text))
          => (data_buffer' = data_buffer /\ clock' = clock /\ pc' = "drain")]_vars

\* C5 witness: a line was rejected with a parsing error, a sample accepted
\* before it is still in the buffer and another item is waiting in the queue.
C5_Witness ==
    /\ report = "Data parsing error"
    /\ data_buffer # <<>>
    /\ data_queue # <<>>
    /\ pc = "drain"

\* C6: once Disconnect has closed a port, the reader started for that port
\* puts nothing more on the queue.
C6_NoEnqueueAfterDisconnect ==
    [][\A t \in Threads :
          ports[Born(t)] = "closed by disconnect" => ~ Enqueues(t)]_vars

\* C7: a reader whose read attempt raises puts exactly one error marker on the
\* queue and ends: the step that queues a marker ends the thread and takes no
\* line off the wire, the step that ends a polling thread queues one marker
\* and nothing else, and an ended thread never moves again.
C7_ErrorEndsReader ==
    [][\A t \in Threads :
          /\ (Enqueues(t) /\ IsMarker(data_queue'[Len(data_queue')]))
                => (threads'[t].pc = "done" /\ read_seq' = read_seq)
          /\ (threads[t].pc = "poll" /\ threads'[t].pc = "done")
                => /\ Len(data_queue') = Len(data_queue) + 1
                   /\ SubSeq(data_queue', 1, Len(data_queue)) = data_queue
                   /\ IsMarker(data_queue'[Len(data_queue')])
          /\ threads[t].pc = "done" => threads'[t] = threads[t]]_vars

\* C7 witness: a reader has ended although its port is still open and named
\* by the session state (only a raised error ends it there), and its marker
\* is the last item of the queue.
C7_Witness ==
    \E t \in Threads :
        /\ threads[t].pc = "done"
        /\ serial_connection = Born(t)
        /\ is_open(Born(t))
        /\ data_queue # <<>>
        /\ IsMarker(data_queue[Len(data_queue)])

\* C8: an error marker taken from the queue is not parsed, leaves the buffer
\* alone and is reported on the operator's error channel.
C8_MarkerSurfaced ==
    [][(Dequeues /\ IsMarker(Head(data_queue)))
          => (data_buffer' = data_buffer /\ report' # "none")]_vars

\* C9: at most one port is open at any time, and an open port is the one the
\* session state names.
C9_OnePortOpen ==
    \A c, d \in 1..Len(ports) :
        is_open(c) /\ is_open(d) => (c = d /\ serial_connection = c)

\* C9 witness: a second port is open after a reconnect closed the first.
C9_Witness ==
    /\ Len(ports) >= 2
    /\ ports[1] = "closed by connect"
    /\ is_open(2)

\* C10: metrics are rendered only from a non-empty buffer, and when the
\* script has just rendered (it stands at its start, the buffer untouched
\* since), it showed "no data" for an empty buffer and otherwise the metrics
\* of the most recently appended sample.
C10_RenderFromLatest ==
    /\ display.kind = "metrics" => data_buffer # <<>>
    /\ (pc = "start" /\ display.kind # "not rendered") =>
          IF data_buffer = <<>>
          THEN display.kind = "No data received yet"
          ELSE /\ display.kind = "metrics"
               /\ display.latest = data_buffer[Len(data_buffer)]
               /\ display.link_margin =
                      DecSub(data_buffer[Len(data_buffer)].rssi, rx_sensitivity)

\* C10 witness: the script has rendered metrics from a buffer of two samples.
C10_Witness ==
    /\ pc = "start"
    /\ display.kind = "metrics"
    /\ Len(data_buffer) >= 2

\* C11: every dequeued line whose parse fails, a short record as much as a
\* record with a non-numeric field, is reported to the operator and leaves the
\* buffer alone.
C11_ParseFailureReported ==
    [][(Dequeues /\ ~ StartsWith(Head(data_queue).text, ErrorPrefix)
            /\ Malformed(Head(data_queue).text))
          => (data_buffer' = data_buffer /\ report' # "none")]_vars

\* C12: whenever the port a reader was started for is closed, by Disconnect
\* or by the close step of a reconnect, that reader eventually leaves its loop.
C12_ClosedPortEndsReader ==
    \A t \in 1..MaxInputs :
        (t \in Threads /\ ~ is_open(t)) ~> (t \in Threads /\ threads[t].pc = "done")

\* C13: a drain pass ends only on an empty queue, so every item that was
\* queued when it started has been removed by then, and the pass never waits
\* for an item: a step of the consumer inside the pass either removes the head
\* of a non-empty queue or, on an empty queue, ends the pass, whatever the
\* readers enqueue meanwhile.
C13_DrainToEmptyNoBlock ==
    /\ [][(pc = "drain" /\ pc' # "drain")
             => (pc' = "start" /\ data_queue = <<>> /\ data_queue' = <<>>)]_vars
    /\ [][(pc = "drain" /\ pc' = "drain" /\ threads' = threads)
             => (data_queue # <<>> /\ data_queue' = Tail(data_queue))]_vars

\* a pass has ended on an empty queue after removing two lines while a reader
\* of the open port is still running
C13_Witness ==
    /\ pc = "start"
    /\ data_queue = <<>>
    /\ read_seq >= 2
    /\ clock >= 1
    /\ serial_connection # 0
    /\ \E t \in Threads : Live(t)

\* the step of the Disconnect handler on a handle that is in place: the handle
\* is cleared or a port gets closed by Disconnect
DisconnectStep ==
    /\ serial_connection # 0
    /\ \/ serial_connection' = 0
       \/ \E c \in 1..Len(ports) :
              ports[c] # "closed by disconnect" /\ ports'[c] = "closed by disconnect"

\* C14: Disconnect closes the port of the handle and sets the handle to None,
\* and leaves the history buffer and the items pending in the queue as they were.
C14_DisconnectFrame ==
    [][DisconnectStep
          => /\ ports'[serial_connection] # "open"
             /\ \A c \in 1..Len(ports) : c # serial_connection => ports'[c] = ports[c]
             /\ Len(ports') = Len(ports)
             /\ serial_connection' = 0
             /\ data_buffer' = data_buffer
             /\ data_queue' = data_queue]_vars

\* Disconnect has just closed the port with a line still pending in the queue
\* and a sample in the buffer
C14_Witness ==
    /\ serial_connection = 0
    /\ pc = "drain"
    /\ ports # <<>>
    /\ ports[Len(ports)] = "closed by disconnect"
    /\ data_queue # <<>>
    /\ data_buffer # <<>>

\* the sample the claim describes for a line: field k is the k-th piece
\* between commas, fields 2 and 3 divided by 10^7, field 4 by 10^3
Sample(text) ==
    LET f == Split(text, <<>>)
    IN  [timestamp |-> ToInt(f[1]).v,
         latitude  |-> DecShift(ToFloat(f[2]).v, 7),
         longitude |-> DecShift(ToFloat(f[3]).v, 7),
         altitude  |-> DecShift(ToFloat(f[4]).v, 3),
         rssi      |-> ToFloat(f[5]).v,
         snr       |-> ToFloat(f[6]).v]

\* the consumer takes a record of at least six numeric fields off the queue
ParsesRecord ==
    /\ Dequeues
    /\ ~ StartsWith(Head(data_queue).text, ErrorPrefix)
    /\ ~ Malformed(Head(data_queue).text)

\* C15: a line of at least six numeric fields parses to the sample with
\* timestamp = field 1, latitude = field 2 / 10^7, longitude = field 3 / 10^7,
\* altitude = field 4 / 10^3, rssi = field 5 and snr = field 6, whatever
\* follows field 6; the scenario line gives 1000, 18.5204, 73.8567, 100.0,
\* -95.0 and 8.0.
C15_ParseFieldMapping ==
    [][ParsesRecord
          => LET text == Head(data_queue).text
                 got == data_buffer'[Len(data_buffer')]
             IN  /\ Len(data_buffer') = Len(data_buffer) + 1
                 /\ [k \in DOMAIN Sample(text) |-> got[k]] = Sample(text)
                 /\ text = LineScenario
                        => /\ got.timestamp = 1000
                           /\ got.latitude = [m |-> 185204, e |-> 4]
                           /\ got.longitude = [m |-> 738567, e |-> 4]
                           /\ got.altitude = [m |-> 100, e |-> 0]
                           /\ got.rssi = [m |-> 0 - 95, e |-> 0]
                           /\ got.snr = [m |-> 8, e |-> 0]]_vars

\* the buffer holds the sample of the seven-field record, its seventh field
\* being no number
C15_Witness ==
    /\ data_buffer # <<>>
    /\ data_buffer[Len(data_buffer)].timestamp = 2000
    /\ data_buffer[Len(data_buffer)].rssi = [m |-> 0 - 1015, e |-> 1]
    /\ data_buffer[Len(data_buffer)].altitude = [m |-> 100, e |-> 0]

\* a decimal of at most three places in thousandths, as an integer
Milli(d) == d.m * Pow10(3 - d.e)

\* C16: the classification is "Good" exactly when the link margin is above 10,
\* "Poor" exactly when it is below 0, and "Fair" for every margin from 0 to 10,
\* both limits included.
C16_MarginClassification ==
    calc_out # None
        => LET margin == Milli(calc_out.link_margin)
           IN  /\ calc_out.delta = "Good" <=> margin > 10000
               /\ calc_out.delta = "Poor" <=> margin < 0
               /\ (0 <= margin /\ margin <= 10000) => calc_out.delta = "Fair"

\* a margin of exactly 10 has been classified
C16_Witness ==
    /\ calc_out # None
    /\ calc_out.link_margin = [m |-> 10, e |-> 0]
    /\ calc_out.delta = "Fair"

\* C17: the calculator yields fspl = 0 for a distance of 0 or less,
\* theoretical received power = tx power + tx gain + rx gain - fspl - filter
\* loss, link margin = rssi - rx sensitivity and power difference = rssi -
\* theoretical received power, whatever was computed before.
C17_CalculatorFormulas ==
    calc_out # None
        => /\ Milli(calc_in.distance) <= 0 => calc_out.fspl = [m |-> 0, e |-> 0]
           /\ Milli(calc_out.theoretical_rx_power)
                  = Milli(calc_in.tx_power) + Milli(calc_in.tx_gain)
                      + Milli(calc_in.rx_gain) - Milli(calc_out.fspl)
                      - Milli(calc_in.filter_loss)
           /\ Milli(calc_out.link_margin)
                  = Milli(calc_in.rssi) - Milli(calc_in.rx_sensitivity)
           /\ Milli(calc_out.power_difference)
                  = Milli(calc_in.rssi) - Milli(calc_out.theoretical_rx_power)
           /\ \A k \in DOMAIN calc_out : k # "delta" => calc_out[k] = DecNorm(calc_out[k])

\* the link budget of a negative distance has been computed: no path loss,
\* and a received power that differs from the theoretical one
C17_Witness ==
    /\ calc_out # None
    /\ Milli(calc_in.distance) < 0
    /\ calc_out.fspl = [m |-> 0, e |-> 0]
    /\ calc_out.theoretical_rx_power = [m |-> 165, e |-> 1]
    /\ calc_out.power_difference = [m |-> 0 - 126501, e |-> 3]

\* a trimmed line the reader is to enqueue: not empty, with a comma in it
Wanted(line) == line # <<>> /\ \E i \in 1..Len(line) : line[i] = ","

\* C18: the reader enqueues a line it read if and only if the trimmed line is
\* not empty and contains a comma; any other line is dropped with nothing
\* enqueued and nothing reported, and the reader goes on.
C18_ReaderFilter ==
    /\ [][\A t \in Threads :
             (threads[t].pc # "filter" /\ threads'[t].pc = "filter")
                 => \E text \in run.texts : threads'[t].line = Strip(text)]_vars
    /\ [][\A t \in Threads :
             (threads[t].pc = "filter" /\ threads'[t].pc # "filter")
                 => LET line == threads[t].line
                    IN  /\ Wanted(line) => data_queue' = Append(data_queue,
                                               [text |-> line, id |-> threads[t].id])
                        /\ ~ Wanted(line) => data_queue' = data_queue
                        /\ report' = report
                        /\ threads'[t].pc = "check"]_vars
    /\ [][(Len(data_queue') > Len(data_queue) /\ data_queue'[Len(data_queue')].id # 0)
             => \E t \in Threads :
                    /\ threads[t].pc = "filter"
                    /\ threads[t].line = data_queue'[Len(data_queue')].text
                    /\ Wanted(threads[t].line)]_vars

\* two lines were read and filtered; the first is still at the head of the
\* queue and the second, which would stand behind it, was not enqueued
C18_Witness ==
    /\ read_seq = 2
    /\ Len(data_queue) = 1
    /\ data_queue[1].id = 1
    /\ \A t \in Threads : threads[t].pc # "filter"

\* C19: whenever the handle is set and its port is open, which is what the
\* status line shows as "Connected", some reader thread is alive.
C19_ConnectedHasReader ==
    (serial_connection # 0 /\ is_open(serial_connection))
        => \E t \in Threads : Live(t)

\* C20: an item a reader put on the queue stays there, in its place, until
\* the consumer takes it off the head, once: a step leaves the queue as it is,
\* or a reader appends one item behind the others, or the consumer's loop
\* removes the head; no line is in the queue twice, and a step of Connect or
\* Disconnect leaves the queue as it is.
C20_QueueItemsOnce ==
    /\ [][\/ data_queue' = data_queue
          \/ /\ \E t \in Threads : threads'[t] # threads[t]
             /\ pc' = pc
             /\ Len(data_queue') = Len(data_queue) + 1
             /\ SubSeq(data_queue', 1, Len(data_queue)) = data_queue
          \/ /\ Dequeues
             /\ threads' = threads
             /\ pc \in {"start", "drain"}
             /\ pc' = "drain"]_vars
    /\ [][\A i, j \in 1..Len(data_queue') :
              (i < j /\ data_queue'[i].id # 0) => data_queue'[i].id # data_queue'[j].id]_vars
    /\ [][(ports' # ports \/ serial_connection' # serial_connection)
             => data_queue' = data_queue]_vars

\* a reconnect has happened with two lines pending: the first reader has
\* ended, the second port is open and both lines are still in the queue
C20_Witness ==
    /\ Len(ports) = 2
    /\ serial_connection = 2
    /\ pc = "drain"
    /\ read_seq = 2
    /\ Len(data_queue) = 2
    /\ data_queue[1].id = 1
    /\ data_queue[2].id = 2
    /\ threads[1].pc = "done"

====
